---------------------------- MODULE Spec2Model ----------------------------
(***************************************************************************)
(* Query routing, phased execution and tool-result caching of the places   *)
(* service:                                                                *)
(*   QueryRouterService            query-router.service.ts                 *)
(*   AgentCoordinationService      agent-coordination.service.ts (the      *)
(*                                 second, current class of the file)      *)
(*   IntelligentOrchestratorService intelligent-orchestrator.service.ts    *)
(*   ToolProxyService              tool-proxy.service.ts (unnamed/part_031)*)
(*                                                                         *)
(* The runtime is one Node.js event loop: code between two awaits of an    *)
(* external call runs to completion, so one action is one such stretch.    *)
(*                                                                         *)
(* Two specifications share the module:                                    *)
(*   Spec       one request through processIntelligentQuery                *)
(*   CacheSpec  concurrent callers of the ToolProxyService cache           *)
(***************************************************************************)
EXTENDS Integers, Sequences, FiniteSets, TLC

VARIABLES
    \* ---- ToolProxyService ----
    cache,        \* Map<string, CacheEntry>: cache key -> [result, timestamp, ttl]
    now,          \* Date.now()
    calls,        \* executeWithCache invocations suspended at orchestratorAgent.generate
    nCalls,       \* number of executeWithCache invocations made so far
    lastLookup,   \* history: the cache check of the latest executeWithCache invocation
    lastResult,   \* the latest settled executeWithCache promise (ToolResult or rejection)
    lastCleaned,  \* return value of the latest cleanExpiredEntries()
    registered,   \* agents registered with the mastra instance
    prevLookup,   \* history: the cache check before the latest one (callers of ReadSpec)
    planRun,      \* the run of executePlanTool.execute: plan, position, results
    \* ---- one request ----
    pc,           \* "idle" | "executing" | "done"
    request,      \* history: kind of query and cacheStrategy of the request handled
    analysis,     \* QueryAnalysis (after applyUserContext)
    plan,         \* ExecutionPlan.phases
    phaseResults, \* Map<string, any> of executeCoordinatedQuery
    inFlight,     \* names of the phases whose agent.generate call is pending
    started,      \* names of the phases executePhase was called for
    failure,      \* history: the phase whose executor call failed, and how
    peakInFlight, \* history: the largest number of executor calls pending together
    stages,       \* history: the stages the request went through, in order
    budget,       \* history: start time and preferences.maxExecutionTime of the request
    response      \* completion of processIntelligentQuery: return value or throw

cacheVars == <<cache, now, calls, nCalls, lastLookup, lastResult, lastCleaned,
               registered, prevLookup, planRun>>
reqVars == <<pc, request, analysis, plan, phaseResults, inFlight, started,
             failure, peakInFlight, stages, budget, response>>
vars == <<cache, now, calls, nCalls, lastLookup, lastResult, lastCleaned, registered, prevLookup,
          planRun,
          pc, request, analysis, plan, phaseResults, inFlight, started,
          failure, peakInFlight, stages, budget, response>>

--------------------------------------------------------------------------
(* Bounds                                                                  *)

\* executeWithCache invocations made by the callers of CacheSpec
MaxCalls == 2
\* clock advances of CacheSpec, each of one TickMs
MaxTicks == 2
\* executeWithCache invocations made by the callers of ReadSpec
MaxReads == 3

--------------------------------------------------------------------------
(* Generic helpers                                                         *)

Range(s) == {s[i] : i \in DOMAIN s}

Min(a, b) == IF a < b THEN a ELSE b

\* the subsequence of s whose elements satisfy membership in S
RECURSIVE SelectIn(_, _)
SelectIn(s, S) ==
    IF s = <<>> THEN <<>>
    ELSE IF Head(s) \in S THEN <<Head(s)>> \o SelectIn(Tail(s), S)
    ELSE SelectIn(Tail(s), S)

\* s without the later repetitions of an element: [...new Set(s)]
RECURSIVE Dedup(_)
Dedup(s) ==
    IF s = <<>> THEN <<>>
    ELSE LET front == Dedup(SubSeq(s, 1, Len(s) - 1))
             last == s[Len(s)]
         IN IF last \in Range(front) THEN front ELSE Append(front, last)

--------------------------------------------------------------------------
(* JavaScript values of the tool layer.                                    *)
(* An object is the sequence of its <<key, value>> properties in insertion *)
(* order; a value is tagged [kind, val] with kind "num" or "obj".          *)

Num(n) == [kind |-> "num", val |-> n]
Obj(props) == [kind |-> "obj", val |-> props]

\* Object.keys(o): the own property names in insertion order
ObjectKeys(props) == [i \in DOMAIN props |-> props[i][1]]

HasKey(props, k) == \E i \in DOMAIN props : props[i][1] = k

GetProp(props, k) == props[CHOOSE i \in DOMAIN props : props[i][1] = k][2]

\* The property names the model uses, in the order Array.prototype.sort()
\* (UTF-16 code units) gives them.
KeyOrder == <<"filters", "lat", "lon", "open", "radius">>

\* keys.sort() followed by the de-duplication JSON.stringify applies to an
\* array replacer
SortKeys(keys) == SelectIn(KeyOrder, Range(keys))

\* JSON.stringify(value, propertyList): an array replacer is a whitelist that
\* applies at every nesting depth and fixes the order of the properties
\* written. The JSON text is represented by the ordered structure it spells.
RECURSIVE StringifyProps(_, _)
StringifyValue(value, propertyList) ==
    IF value.kind = "obj"
    THEN [kind |-> "obj", val |-> StringifyProps(value.val, propertyList)]
    ELSE value

StringifyPropsAt(props, propertyList, i) ==
    IF HasKey(props, propertyList[i])
    THEN <<
           <<propertyList[i], StringifyValue(GetProp(props, propertyList[i]), propertyList)>>
         >>
    ELSE <<>>

StringifyProps(props, propertyList) ==
    LET RECURSIVE Upto(_)
        Upto(n) == IF n = 0 THEN <<>>
                   ELSE Upto(n - 1) \o StringifyPropsAt(props, propertyList, n)
    IN Upto(Len(propertyList))

\* JSON.stringify(params, Object.keys(params)) with the keys left in insertion
\* order: the key derivation without its sort().
GenerateCacheKeyUnsorted(toolName, params) ==
    <<toolName, StringifyProps(params, ObjectKeys(params))>>

\* generateCacheKey: `${toolName}:${base64(JSON.stringify(params, sortedKeys))}`.
\* Base64 and the "name:" prefix are one-to-one, so the key is the pair.
GenerateCacheKey(toolName, params) ==
    <<toolName, StringifyProps(params, SortKeys(ObjectKeys(params)))>>

--------------------------------------------------------------------------
(* ToolProxyService                                                        *)

MinuteMs == 60 * 1000

\* private readonly defaultTTL = 5 * 60 * 1000
DefaultTTL == 5 * MinuteMs

\* The public methods: tool name, customTTL argument (0: none passed) and the
\* default of the useCache parameter.
ProxyMethod(method) ==
    CASE method = "searchPoi" ->
           [toolName |-> "searchPoiTool", customTTL |-> 0, useCache |-> TRUE]
      [] method = "getWeather" ->
           [toolName |-> "getWeatherTool", customTTL |-> 10 * MinuteMs, useCache |-> TRUE]
      [] method = "searchEvents" ->
           [toolName |-> "searchEventsTool", customTTL |-> 15 * MinuteMs, useCache |-> TRUE]
      [] method = "getAggregatedMetric" ->
           [toolName |-> "getAggregatedMetricTool", customTTL |-> 0, useCache |-> FALSE]

\* const ttl = customTTL || this.defaultTTL
EffectiveTTL(customTTL) == IF customTTL # 0 THEN customTTL ELSE DefaultTTL

\* Date.now() - entry.timestamp < entry.ttl
IsFresh(entry, t) == t - entry.timestamp < entry.ttl

\* the expiry test of the lookup with <= for <
IsFreshInclusive(entry, t) == t - entry.timestamp <= entry.ttl

\* the test of the lookup in executeWithCache
LookupFresh(entry, t) == IsFresh(entry, t)

Absent == [kind |-> "absent"]
Found(entry) == [kind |-> "entry", entry |-> entry]

\* new Map()
EmptyCache == [k \in {} |-> Absent]

CacheDelete(c, k) == [x \in DOMAIN c \ {k} |-> c[x]]

\* a set() that keeps the timestamp and ttl of an entry already under the key
CacheSetKeepStamp(c, k, entry) ==
    [x \in DOMAIN c \cup {k} |->
        IF x = k
        THEN IF k \in DOMAIN c
             THEN [result |-> entry.result, timestamp |-> c[k].timestamp, ttl |-> c[k].ttl]
             ELSE entry
        ELSE c[x]]

\* this.cache.set(cacheKey, {result, timestamp, ttl}): insert or overwrite
CacheSet(c, k, entry) ==
    [x \in DOMAIN c \cup {k} |-> IF x = k THEN entry ELSE c[x]]

\* data: result.text || result
ResultData(result) ==
    IF result.text # "" THEN [kind |-> "text", val |-> result.text]
    ELSE [kind |-> "object", val |-> result]

\* a cache check that also removes the entry it serves
ExecuteWithCacheStartEvicting(c, t, reg, toolName, params, useCache) ==
    LET key == GenerateCacheKey(toolName, params)
        has == useCache /\ key \in DOMAIN c
        hit == has /\ LookupFresh(c[key], t)
    IN [ key |-> key,
         found |-> IF key \in DOMAIN c THEN Found(c[key]) ELSE Absent,
         cache |-> IF has THEN CacheDelete(c, key) ELSE c,
         outcome |-> IF hit THEN "hit"
                     ELSE IF "orchestratorAgent" \in reg THEN "pending"
                     ELSE "throw",
         value |-> IF hit
                   THEN [data |-> [kind |-> "object", val |-> c[key].result],
                         cached |-> TRUE, executionTime |-> 0, toolName |-> toolName]
                   ELSE [error |-> "Orchestrator agent not found"] ]

\* executeWithCache up to its first await: the key, the cache check (hit, or
\* removal of an expired entry) and the getAgent test. Returns the cache
\* after it and what became of the call: "hit", "pending" or "throw".
ExecuteWithCacheStart(c, t, reg, toolName, params, useCache) ==
    LET key == GenerateCacheKey(toolName, params)
        has == useCache /\ key \in DOMAIN c
        hit == has /\ LookupFresh(c[key], t)
        c1 == IF has /\ ~hit THEN CacheDelete(c, key) ELSE c
    IN [ key |-> key,
         found |-> IF key \in DOMAIN c THEN Found(c[key]) ELSE Absent,
         cache |-> c1,
         outcome |-> IF hit THEN "hit"
                     ELSE IF "orchestratorAgent" \in reg THEN "pending"
                     ELSE "throw",
         value |-> IF hit
                   THEN [data |-> [kind |-> "object", val |-> c[key].result],
                         cached |-> TRUE, executionTime |-> 0, toolName |-> toolName]
                   ELSE [error |-> "Orchestrator agent not found"] ]

\* a completion that stores the result whatever useCache says
ExecuteWithCacheFinishAlwaysStore(c, t, call, result) ==
    [ cache |-> CacheSet(c, call.key,
                         [result |-> result, timestamp |-> t,
                          ttl |-> EffectiveTTL(call.customTTL)]),
      value |-> [data |-> ResultData(result), cached |-> FALSE,
                 executionTime |-> t - call.startTime, toolName |-> call.toolName] ]

\* executeWithCache after orchestratorAgent.generate resolved with `result`
ExecuteWithCacheFinish(c, t, call, result) ==
    [ cache |-> IF call.useCache
                THEN CacheSet(c, call.key,
                              [result |-> result, timestamp |-> t,
                               ttl |-> EffectiveTTL(call.customTTL)])
                ELSE c,
      value |-> [data |-> ResultData(result), cached |-> FALSE,
                 executionTime |-> t - call.startTime, toolName |-> call.toolName] ]

\* a sweep that keeps an entry whose age equals its ttl
CleanExpiredEntriesStrict(c, t) ==
    LET expired == {k \in DOMAIN c : t - c[k].timestamp > c[k].ttl}
    IN [cache |-> [k \in DOMAIN c \ expired |-> c[k]], cleaned |-> Cardinality(expired)]

\* cleanExpiredEntries: the cache after the sweep and the number removed
CleanExpiredEntries(c, t) ==
    LET expired == {k \in DOMAIN c : t - c[k].timestamp >= c[k].ttl}
    IN [cache |-> [k \in DOMAIN c \ expired |-> c[k]], cleaned |-> Cardinality(expired)]

\* getCacheStats().size
CacheSize(c) == Cardinality(DOMAIN c)

--------------------------------------------------------------------------
(* Callers of the ToolProxyService (CacheSpec)                             *)

\* one clock advance
TickMs == 5 * MinuteMs

ParamLatLon == << <<"lat", Num(40)>>, <<"lon", Num(-74)>> >>
ParamLonLat == << <<"lon", Num(-74)>>, <<"lat", Num(40)>> >>
ParamNear == << <<"lat", Num(40)>>,
                <<"filters", Obj(<< <<"open", Num(1)>>, <<"radius", Num(5)>> >>)>> >>
ParamFar == << <<"lat", Num(40)>>,
               <<"filters", Obj(<< <<"radius", Num(9)>>, <<"open", Num(1)>> >>)>> >>

\* the invocations the callers make: <<method, params, useCache argument>>
CallerInvocations ==
    { <<"getWeather", ParamLatLon, "default">>,
      <<"getWeather", ParamLonLat, "default">>,
      <<"getWeather", ParamLatLon, "false">>,
      <<"getWeather", ParamNear, "true">>,
      <<"getWeather", ParamFar, "default">>,
      <<"searchPoi", ParamLatLon, "default">>,
      <<"getAggregatedMetric", ParamLatLon, "default">>,
      <<"getAggregatedMetric", ParamLonLat, "true">> }

\* what orchestratorAgent.generate may resolve with: with or without a text
AgentTexts == {"", "text"}

NoLookup == [kind |-> "none"]
NoResult == [kind |-> "none"]

\* the registries of src/mastra/index.ts
AgentRegistries ==
    { {"orchestratorAgent", "mapDataAgent", "plannerAgent", "summarizerAgent"},
      {"orchestratorAgent", "mapDataAgent"} }

CacheInit ==
    /\ cache = EmptyCache
    /\ now = 0
    /\ calls = {}
    /\ nCalls = 0
    /\ lastLookup = NoLookup
    /\ lastResult = NoResult
    /\ lastCleaned = 0
    /\ prevLookup = NoLookup
    /\ planRun = [kind |-> "idle"]

\* The effect on the proxy of one executeWithCache(toolName, params, useCache,
\* customTTL) invocation, up to its first await.
InvokeTool(c, cs, n, toolName, params, useCache, customTTL) ==
    LET r == ExecuteWithCacheStart(c, now, registered, toolName, params, useCache)
        id == n + 1
        call == [id |-> id, toolName |-> toolName, params |-> params,
                 useCache |-> useCache, customTTL |-> customTTL,
                 key |-> r.key, startTime |-> now]
    IN [ cache |-> r.cache,
         calls |-> IF r.outcome = "pending" THEN cs \cup {call} ELSE cs,
         nCalls |-> id,
         lookup |-> [kind |-> "lookup", id |-> id, toolName |-> toolName,
                     params |-> params, useCache |-> useCache, key |-> r.key,
                     time |-> now, found |-> r.found, outcome |-> r.outcome],
         settled |-> r.outcome # "pending",
         result |-> IF r.outcome = "hit"
                    THEN [kind |-> "resolved", id |-> id, value |-> r.value]
                    ELSE [kind |-> "rejected", id |-> id, value |-> r.value] ]

\* What orchestratorAgent.generate resolves with at time t for the prompt
\* `Execute tool "${toolName}" with parameters: ${JSON.stringify(params)}`:
\* an answer to that prompt, with or without a text.
AgentResult(call, text, t) ==
    [text |-> text, toolName |-> call.toolName, params |-> call.params, resolvedAt |-> t]

\* a public method of the proxy is invoked: it runs up to the first await
ProxyCall(method, params, useCacheArg) ==
    /\ LET m == ProxyMethod(method)
           useCache == IF useCacheArg = "default" THEN m.useCache ELSE useCacheArg = "true"
           r == InvokeTool(cache, calls, nCalls, m.toolName, params, useCache, m.customTTL)
       IN /\ cache' = r.cache
          /\ calls' = r.calls
          /\ nCalls' = r.nCalls
          /\ lastLookup' = r.lookup
          /\ lastResult' = IF r.settled THEN r.result ELSE lastResult
    /\ UNCHANGED <<now, lastCleaned, registered, planRun>>

\* a caller invokes a public method of the proxy
ToolCall(method, params, useCacheArg) ==
    /\ nCalls < MaxCalls
    /\ ProxyCall(method, params, useCacheArg)
    /\ UNCHANGED prevLookup

\* orchestratorAgent.generate resolves: the rest of executeWithCache runs
ToolCallResolve(call, text) ==
    /\ call \in calls
    /\ LET result == AgentResult(call, text, now)
           r == ExecuteWithCacheFinish(cache, now, call, result)
       IN /\ cache' = r.cache
          /\ lastResult' = [kind |-> "resolved", id |-> call.id, value |-> r.value]
    /\ calls' = calls \ {call}
    /\ UNCHANGED <<now, nCalls, lastLookup, lastCleaned, registered, prevLookup, planRun>>

\* orchestratorAgent.generate rejects: the catch block logs and rethrows
ToolCallReject(call) ==
    /\ call \in calls
    /\ calls' = calls \ {call}
    /\ lastResult' = [kind |-> "rejected", id |-> call.id,
                      value |-> [error |-> "generate failed"]]
    /\ UNCHANGED <<cache, now, nCalls, lastLookup, lastCleaned, registered, prevLookup, planRun>>

\* cleanExpiredEntries()
CleanExpired ==
    /\ LET r == CleanExpiredEntries(cache, now)
       IN /\ cache' = r.cache
          /\ lastCleaned' = r.cleaned
    /\ UNCHANGED <<now, calls, nCalls, lastLookup, lastResult, registered, prevLookup, planRun>>

\* clearCache()
ClearCache ==
    /\ cache' = EmptyCache
    /\ UNCHANGED <<now, calls, nCalls, lastLookup, lastResult, lastCleaned,
                   registered, prevLookup, planRun>>

\* time passes
Tick ==
    /\ now < MaxTicks * TickMs
    /\ now' = now + TickMs
    /\ UNCHANGED <<cache, calls, nCalls, lastLookup, lastResult, lastCleaned,
                   registered, prevLookup, planRun>>

--------------------------------------------------------------------------
(* QueryRouterService                                                      *)
(* A query text is the sequence of its words; text.includes(keyword) is    *)
(* the occurrence of the keyword's words as a contiguous run.              *)

Vocabulary == {"map", "count", "find", "weather", "what", "near", "Austin", "30,-97"}

\* String.prototype.toLowerCase, word by word
LowerWord(w) ==
    CASE w \in {"Austin", "AUSTIN"} -> "austin"
      [] w = "Paris" -> "paris"
      [] OTHER -> w
ToLowerCase(q) == [i \in DOMAIN q |-> LowerWord(q[i])]

Includes(q, kw) ==
    \E i \in 1..Len(q) : i + Len(kw) - 1 <= Len(q) /\ SubSeq(q, i, i + Len(kw) - 1) = kw

IncludesAny(q, kws) == \E kw \in kws : Includes(q, kw)

MapKeywords == { <<"map">>, <<"show", "on", "map">>, <<"geojson">>, <<"coordinates">>,
                 <<"plot">>, <<"visualize">> }
AnalyticsKeywords == { <<"average">>, <<"count">>, <<"sum">>, <<"how", "many">>,
                       <<"statistics">>, <<"foot", "traffic">>, <<"busy">> }
SearchKeywords == { <<"find">>, <<"search">>, <<"look", "for">>, <<"locate">> }

\* classifyQueryType with the analytics keywords tested ahead of the mapping
\* keywords
ClassifyQueryTypeAnalyticsFirst(q) ==
    IF IncludesAny(q, AnalyticsKeywords) THEN "analytics"
    ELSE IF IncludesAny(q, MapKeywords) THEN "map_data_only"
    ELSE IF /\ IncludesAny(q, SearchKeywords)
            /\ ~Includes(q, <<"weather">>)
            /\ ~Includes(q, <<"events">>) THEN "search_only"
    ELSE "comprehensive"

\* classifyQueryType, on the lower-cased query
ClassifyQueryType(q) ==
    IF IncludesAny(q, MapKeywords) THEN "map_data_only"
    ELSE IF IncludesAny(q, AnalyticsKeywords) THEN "analytics"
    ELSE IF /\ IncludesAny(q, SearchKeywords)
            /\ ~Includes(q, <<"weather">>)
            /\ ~Includes(q, <<"events">>) THEN "search_only"
    ELSE "comprehensive"

Prepositions == {"in", "near", "at", "around", "by"}
\* the words matching [A-Z][a-z]+
CapitalizedWords == {"Austin", "Paris"}
CoordinateWords == {"30,-97"}
\* three of the majorCities list
MajorCities == {"austin", "chicago", "dallas"}

\* city.split(' ').map(capitalize).join(' ')
CapitalizeCity(city) ==
    CASE city = "austin" -> "Austin"
      [] city = "chicago" -> "Chicago"
      [] city = "dallas" -> "Dallas"

\* words.join(' ') for the runs of capitalized words of the query texts
JoinWords(ws) ==
    CASE Len(ws) = 1 -> ws[1]
      [] ws = <<"Austin", "Austin">> -> "Austin Austin"
      [] ws = <<"Austin", "Paris">> -> "Austin Paris"
      [] ws = <<"Paris", "Austin">> -> "Paris Austin"
      [] ws = <<"Paris", "Paris">> -> "Paris Paris"

\* the length of the run of capitalized words of q that starts at position j
RECURSIVE CapitalizedRun(_, _)
CapitalizedRun(q, j) ==
    IF j > Len(q) \/ q[j] \notin CapitalizedWords THEN 0
    ELSE 1 + CapitalizedRun(q, j + 1)

\* the matches of the preposition pattern from position i on: the whole run
\* of capitalized words after the preposition is one match
RECURSIVE PrepositionMatches(_, _)
PrepositionMatches(q, i) ==
    IF i >= Len(q) THEN <<>>
    ELSE IF q[i] \in Prepositions /\ q[i + 1] \in CapitalizedWords
         THEN LET n == CapitalizedRun(q, i + 1)
              IN <<JoinWords(SubSeq(q, i + 1, i + n))>> \o PrepositionMatches(q, i + n + 1)
         ELSE PrepositionMatches(q, i + 1)

\* the matches of the coordinate pattern, which rewrites "a,b" as "a, b"
RECURSIVE CoordinateMatches(_, _)
CoordinateMatches(q, i) ==
    IF i > Len(q) THEN <<>>
    ELSE (IF q[i] \in CoordinateWords THEN <<"30, -97">> ELSE <<>>)
         \o CoordinateMatches(q, i + 1)

\* the city names pushed by majorCities.forEach, capitalized
CityMatches(q) ==
    LET cities == SelectIn(<<"chicago", "dallas", "austin">>,
                           {c \in MajorCities : Includes(ToLowerCase(q), <<c>>)})
    IN [i \in DOMAIN cities |-> CapitalizeCity(cities[i])]

\* extractLocations without the final [...new Set(matches)]
ExtractLocationsKeepRepetitions(q) ==
    PrepositionMatches(q, 1) \o CoordinateMatches(q, 1) \o CityMatches(q)

\* extractLocations over the words of the query: the preposition pattern
\* (case sensitive), the coordinate pattern and the lookup of the city list
\* in the lower-cased text, then [...new Set(matches)]. The landmark, state,
\* city-state and street patterns match no text over the vocabulary.
ExtractLocations(q) ==
    Dedup(PrepositionMatches(q, 1) \o CoordinateMatches(q, 1) \o CityMatches(q))

\* extractCategories / extractMetrics / extractTimeframes:
\* keywords.filter(k => query.toLowerCase().includes(k))
FilterKeywords(q, keywords) ==
    SelectIn(keywords, {k \in Range(keywords) : Includes(ToLowerCase(q), k)})

ExtractCategories(q) ==
    FilterKeywords(q, << <<"restaurant">>, <<"cafe">>, <<"coffee", "shop">>, <<"hotel">>,
                         <<"gas", "station">>, <<"pharmacy">>, <<"hospital">>, <<"bank">>,
                         <<"atm">>, <<"grocery", "store">> >>)
ExtractMetrics(q) ==
    FilterKeywords(q, << <<"average">>, <<"count">>, <<"sum">>, <<"max">>, <<"min">>,
                         <<"total">> >>)
ExtractTimeframes(q) ==
    FilterKeywords(q, << <<"today">>, <<"tomorrow">>, <<"this", "week">>, <<"weekend">>,
                         <<"next", "week">> >>)

\* requiresMapping, on the lower-cased query
RequiresMapping(q) ==
    \/ IncludesAny(q, { <<"map">>, <<"show">>, <<"plot">>, <<"visualize">>,
                        <<"geojson">>, <<"coordinates">> })
    \/ Len(ExtractLocations(q)) > 0
    \/ IncludesAny(ToLowerCase(q), { <<"area">>, <<"around">>, <<"near">>, <<"location">>,
                                     <<"suitability">>, <<"competition">>, <<"analyze">> })

\* requiresSummary, on the lower-cased query
RequiresSummary(q) ==
    IncludesAny(q, { <<"tell", "me">>, <<"explain">>, <<"describe">>, <<"what">>, <<"how">> })

\* determineAgents
DetermineAgents(type, requiresMapping) ==
    CASE type = "map_data_only" -> <<"mapDataAgent">>
      [] type = "search_only" -> <<"orchestratorAgent">>
      [] type = "comprehensive" ->
           IF requiresMapping THEN <<"orchestratorAgent", "mapDataAgent">>
           ELSE <<"orchestratorAgent">>
      [] type = "analytics" -> <<"orchestratorAgent">>
      [] type = "location_based" -> <<"orchestratorAgent", "mapDataAgent">>

\* confidence: 0.8, in tenths
BaseConfidence == 8

\* analyzeQuery(query) for a string query
AnalyzeQuery(q) ==
    LET lowerQuery == ToLowerCase(q)
        type == ClassifyQueryType(lowerQuery)
        mapping == RequiresMapping(lowerQuery)
    IN [ type |-> type,
         confidence |-> BaseConfidence,
         suggestedAgents |-> DetermineAgents(type, mapping),
         extractedEntities |-> [ locations |-> ExtractLocations(q),
                                 categories |-> ExtractCategories(q),
                                 metrics |-> ExtractMetrics(q),
                                 timeframes |-> ExtractTimeframes(q) ],
         requiresMapping |-> mapping,
         requiresSummary |-> RequiresSummary(lowerQuery) ]

--------------------------------------------------------------------------
(* AgentCoordinationService: the plan                                      *)

Phase(name, agent, tools, dependencies, parallel) ==
    [name |-> name, agent |-> agent, tools |-> tools,
     dependencies |-> dependencies, parallel |-> parallel]

PlanningPhase == Phase("planning", "plannerAgent", <<"planTool">>, <<>>, FALSE)

MapGenerationPhase(dependency, parallel) ==
    Phase("map_generation", "mapDataAgent", <<"formatMapDataTool">>, <<dependency>>, parallel)

\* the phases pushed by the switch of createExecutionPlan
PlanPhases(type, shouldGenerateMap) ==
    CASE type = "comprehensive" ->
           << PlanningPhase,
              Phase("data_collection", "orchestratorAgent", <<"executePlanTool">>,
                    <<"planning">>, FALSE) >>
           \o (IF shouldGenerateMap
               THEN << MapGenerationPhase("data_collection", TRUE) >> ELSE <<>>)
           \o << Phase("summarization", "summarizerAgent", <<"summarizeTool">>,
                       <<"data_collection">>, TRUE) >>
      [] type = "map_data_only" ->
           << PlanningPhase,
              Phase("geospatial_data", "mapDataAgent",
                    <<"executePlanTool", "formatMapDataTool">>, <<"planning">>, FALSE) >>
      [] type = "search_only" ->
           << Phase("direct_search", "orchestratorAgent",
                    <<"planTool", "executePlanTool">>, <<>>, FALSE) >>
           \o (IF shouldGenerateMap
               THEN << MapGenerationPhase("direct_search", FALSE) >> ELSE <<>>)
      [] type = "analytics" ->
           << PlanningPhase,
              Phase("data_aggregation", "orchestratorAgent", <<"executePlanTool">>,
                    <<"planning">>, FALSE),
              Phase("analysis_summary", "summarizerAgent", <<"summarizeTool">>,
                    <<"data_aggregation">>, FALSE) >>
           \o (IF shouldGenerateMap
               THEN << MapGenerationPhase("data_aggregation", TRUE) >> ELSE <<>>)
      [] OTHER -> <<>>

\* estimateDuration
EstimateDuration(phases) == 2000 + Len(phases) * 1500

\* createExecutionPlan deciding on the map phase from requiresMapping alone
CreateExecutionPlanMapOnFlag(a) ==
    LET phases == PlanPhases(a.type, a.requiresMapping)
    IN [ phases |-> phases,
         estimatedDuration |-> EstimateDuration(phases),
         parallelizable |-> \E i \in DOMAIN phases : phases[i].parallel ]

\* createExecutionPlan with the map phase of an analytics plan made to depend
\* on the comprehensive template's collection phase
CreateExecutionPlanWrongDependency(a) ==
    LET shouldGenerateMap ==
            a.requiresMapping \/ Len(a.extractedEntities.locations) > 0
        base == PlanPhases(a.type, shouldGenerateMap)
        phases == [i \in DOMAIN base |->
                     IF a.type = "analytics" /\ base[i].name = "map_generation"
                     THEN MapGenerationPhase("data_collection", TRUE)
                     ELSE base[i]]
    IN [ phases |-> phases,
         estimatedDuration |-> EstimateDuration(phases),
         parallelizable |-> \E i \in DOMAIN phases : phases[i].parallel ]

\* createExecutionPlan(analysis)
CreateExecutionPlan(a) ==
    LET hasLocations == Len(a.extractedEntities.locations) > 0
        shouldGenerateMap == a.requiresMapping \/ hasLocations
        phases == PlanPhases(a.type, shouldGenerateMap)
    IN [ phases |-> phases,
         estimatedDuration |-> EstimateDuration(phases),
         parallelizable |-> \E i \in DOMAIN phases : phases[i].parallel ]

PhaseNames(phases) == {phases[i].name : i \in DOMAIN phases}

--------------------------------------------------------------------------
(* AgentCoordinationService: execution and synthesis                       *)

Undefined == [kind |-> "undefined"]
Null == [kind |-> "null"]

\* new Map<string, any>()
EmptyResults == [n \in {} |-> Undefined]

\* What agent.generate may resolve with for a phase: a result carrying a text,
\* or a GeoJSON FeatureCollection object with one Point feature and neither
\* bounds nor center.
PhaseOutputs(name) ==
    { [from |-> name, shape |-> "text"],
      [from |-> name, shape |-> "featureCollection"] }

\* buildPhaseContext, were it to copy every stored result
BuildPhaseContextAllResults(phase, previousResults) == previousResults

\* buildPhaseContext: the stored result of every dependency that has one
BuildPhaseContext(phase, previousResults) ==
    [d \in Range(phase.dependencies) \cap DOMAIN previousResults |-> previousResults[d]]

\* The phases the loop of executeCoordinatedQuery hands to executePhase next,
\* were it to start every phase not yet started without awaiting any.
DispatchAll(phases, startedSet, pending) ==
    SelectIn(phases, {phases[i] : i \in {j \in DOMAIN phases : phases[j].name \notin startedSet}})

\* The phases the loop of executeCoordinatedQuery hands to executePhase next:
\* `for (const phase of plan.phases) { await this.executePhase(...) }` starts
\* the first phase not yet started, and only once the awaited one has settled.
Dispatch(phases, startedSet, pending) ==
    LET rest == DispatchAll(phases, startedSet, pending)
    IN IF pending = {} /\ rest # <<>> THEN <<Head(rest)>> ELSE <<>>

\* extractTextFromResult
ExtractTextFromResult(result) ==
    IF result.shape = "text" THEN [kind |-> "text", of |-> result.from]
    ELSE [kind |-> "json", of |-> result.from]

EmptyFeatureCollection ==
    [type |-> "FeatureCollection", features |-> <<>>, bounds |-> Null, center |-> Null]

\* The one Point feature of a FeatureCollection an agent returns.
AgentFeatures == << [lon |-> -97, lat |-> 30] >>

\* calculateBounds / calculateCenter over Point features
CalculateBounds(features) ==
    IF features = <<>> THEN Null
    ELSE LET lats == {features[i].lat : i \in DOMAIN features}
             lons == {features[i].lon : i \in DOMAIN features}
         IN [north |-> CHOOSE x \in lats : \A y \in lats : y <= x,
             south |-> CHOOSE x \in lats : \A y \in lats : x <= y,
             east |-> CHOOSE x \in lons : \A y \in lons : y <= x,
             west |-> CHOOSE x \in lons : \A y \in lons : x <= y]

\* the mean is kept as the exact fraction sum / count
CalculateCenter(features) ==
    LET RECURSIVE Sum(_, _)
        Sum(i, lat) == IF i = 0 THEN 0
                       ELSE Sum(i - 1, lat)
                            + (IF lat THEN features[i].lat ELSE features[i].lon)
        n == Len(features)
    IN IF n = 0 THEN Null
       ELSE [lat |-> [sum |-> Sum(n, TRUE), count |-> n],
             lon |-> [sum |-> Sum(n, FALSE), count |-> n]]

\* formatMapDataForMapbox
FormatMapDataForMapbox(mapResult) ==
    IF mapResult.shape = "featureCollection"
    THEN [type |-> "FeatureCollection", features |-> AgentFeatures,
          bounds |-> CalculateBounds(AgentFeatures),
          center |-> CalculateCenter(AgentFeatures)]
    ELSE EmptyFeatureCollection

\* the mapData of combineResults
CombinedMapData(results) ==
    IF "map_generation" \in DOMAIN results
    THEN LET mapResult == results["map_generation"]
         IN IF mapResult.shape = "featureCollection"
            \* used verbatim: the agent's object, which has no bounds or center
            THEN [type |-> "FeatureCollection", features |-> AgentFeatures,
                  bounds |-> Undefined, center |-> Undefined]
            \* mapResult.text is not the JSON of a FeatureCollection
            ELSE EmptyFeatureCollection
    ELSE IF "geospatial_data" \in DOMAIN results
    THEN FormatMapDataForMapbox(results["geospatial_data"])
    ELSE EmptyFeatureCollection

FirstOf(results, names) ==
    LET present == SelectIn(names, DOMAIN results)
    IN IF present = <<>> THEN Undefined ELSE results[Head(present)]

IntentFromQueryType(type) ==
    CASE type = "analytics" -> "analytics"
      [] type = "map_data_only" -> "mapping"
      [] type = "search_only" -> "search"
      [] type = "location_based" -> "location"
      [] OTHER -> "comprehensive"

\* combineResults(analysis, phaseResults). The raw results of the model hold
\* no point records, so generateBasicMapData adds no feature.
CombineResults(a, results) ==
    LET summaryText ==
            IF "summarization" \in DOMAIN results
            THEN ExtractTextFromResult(results["summarization"])
            ELSE IF "analysis_summary" \in DOMAIN results
            THEN ExtractTextFromResult(results["analysis_summary"])
            ELSE IF "direct_search" \in DOMAIN results
            THEN ExtractTextFromResult(results["direct_search"])
            ELSE [kind |-> "empty"]
        raw == FirstOf(results, <<"data_collection", "direct_search", "data_aggregation">>)
        combined ==
            [ kind |-> "object",
              type |-> "analysis",
              data |-> [ summary |-> [ queryType |-> a.type,
                                       extractedEntities |-> a.extractedEntities,
                                       analysis |-> [text |-> summaryText,
                                                     confidence |-> a.confidence] ],
                         mapData |-> CombinedMapData(results) ],
              metadata |-> [ agentsUsed |-> a.suggestedAgents,
                             confidence |-> a.confidence,
                             intent |-> IntentFromQueryType(a.type),
                             detectedEntities |-> a.extractedEntities.locations ],
              success |-> TRUE ]
    IN IF raw = Undefined THEN combined ELSE combined @@ [rawData |-> raw]

Return(value) == [kind |-> "return", value |-> value]
Throw(error) == [kind |-> "throw", error |-> error]

\* the catch block of executeCoordinatedQuery, were it to rethrow
CoordinationRethrow(message) == Throw(message)

\* the catch block of executeCoordinatedQuery
CoordinationCatch(message) ==
    Return([ phaseResults |-> EmptyResults, finalOutput |-> Null,
             success |-> FALSE, errors |-> <<message>> ])

\* the normal return of executeCoordinatedQuery (errors is left undefined)
CoordinationReturn(a, results) ==
    Return([ phaseResults |-> results, finalOutput |-> CombineResults(a, results),
             success |-> TRUE, errors |-> <<>> ])

NoFailure == [kind |-> "none"]

\* One turn of the loop of executeCoordinatedQuery from the point where the
\* awaited phase has settled: the phases handed to executePhase, whose
\* getAgent test may throw, or the end of the loop.
CoordinatorStep(a, phases, results, startedSet, pending) ==
    LET toStart == Dispatch(phases, startedSet, pending)
        missing == {i \in DOMAIN toStart : toStart[i].agent \notin registered}
        first == CHOOSE i \in missing : \A j \in missing : i <= j
    IN IF toStart = <<>> /\ pending = {}
       THEN [ status |-> "returned", inFlight |-> {}, started |-> startedSet,
              failure |-> NoFailure, completion |-> CoordinationReturn(a, results) ]
       ELSE IF missing # {}
       THEN [ status |-> "returned", inFlight |-> {},
              started |-> startedSet \cup {toStart[i].name : i \in 1..first},
              failure |-> [kind |-> "phase", phase |-> toStart[first].name,
                           how |-> "agent not found"],
              completion |-> CoordinationCatch("Agent not found") ]
       ELSE [ status |-> "running",
              inFlight |-> pending \cup
                  {[name |-> toStart[i].name,
                    context |-> BuildPhaseContext(toStart[i], results)] : i \in DOMAIN toStart},
              started |-> startedSet \cup {toStart[i].name : i \in DOMAIN toStart},
              failure |-> NoFailure, completion |-> Undefined ]

--------------------------------------------------------------------------
(* IntelligentOrchestratorService                                          *)

\* the characters of the QueryType enum values
TypeChars(type) ==
    CASE type = "search_only" -> <<"s", "e", "a", "r", "c", "h", "_", "o", "n", "l", "y">>
      [] type = "map_data_only" ->
           <<"m", "a", "p", "_", "d", "a", "t", "a", "_", "o", "n", "l", "y">>
      [] type = "comprehensive" ->
           <<"c", "o", "m", "p", "r", "e", "h", "e", "n", "s", "i", "v", "e">>
      [] type = "analytics" -> <<"a", "n", "a", "l", "y", "t", "i", "c", "s">>
      [] type = "location_based" ->
           <<"l", "o", "c", "a", "t", "i", "o", "n", "_", "b", "a", "s", "e", "d">>

\* `${userLocation.lat},${userLocation.lon}`
LocationString(point) == IF point.lat = 40 /\ point.lon = -74 THEN "40,-74" ELSE "0,0"

\* applyUserContext(analysis, context)
ApplyUserContext(a, context) ==
    IF context.kind = "undefined" THEN a
    ELSE LET locations ==
                 IF context.userLocation.kind # "undefined"
                    /\ Len(a.extractedEntities.locations) = 0
                 THEN <<LocationString(context.userLocation)>>
                 ELSE a.extractedEntities.locations
             confidence ==
                 CASE context.domainFocus = "places" ->
                        IF \/ Includes(TypeChars(a.type), <<"S", "E", "A", "R", "C", "H">>)
                           \/ Includes(TypeChars(a.type),
                                       <<"C", "O", "M", "P", "R", "E", "H", "E", "N", "S", "I",
                                         "V", "E">>)
                        THEN Min(a.confidence + 1, 10) ELSE a.confidence
                   [] context.domainFocus = "analytics" ->
                        IF a.type = "analytics"
                        THEN Min(a.confidence + 2, 10) ELSE a.confidence
                   [] OTHER -> a.confidence
         IN [a EXCEPT !.extractedEntities.locations = locations,
                      !.confidence = confidence]

\* location.includes(',') and location.split(',').map(Number) gives two numbers
ParsesAsLatLon(location) == location \in {"40,-74", "30, -97"}
ParsedLat(location) == IF location = "40,-74" THEN 40 ELSE 30
ParsedLon(location) == IF location = "40,-74" THEN -74 ELSE -97

ProxyState(c, cs, n, lookup, result) ==
    [cache |-> c, calls |-> cs, nCalls |-> n, lookup |-> lookup, result |-> result]

\* one proxy method invoked from preWarmCache on the proxy state `st`
PreWarmCall(st, method, params) ==
    LET m == ProxyMethod(method)
        r == InvokeTool(st.cache, st.calls, st.nCalls, m.toolName, params, m.useCache,
                        m.customTTL)
    IN ProxyState(r.cache, r.calls, r.nCalls, r.lookup,
                  IF r.settled THEN r.result ELSE st.result)

\* the proxy methods preWarmCache invokes, in order: getWeather({lat, lon})
\* and searchEvents({lat, lon, radius: 1000}) for every location that parses
\* as "lat,lon"
RECURSIVE PreWarmTasks(_)
PreWarmTasks(locations) ==
    IF locations = <<>> THEN <<>>
    ELSE (IF ParsesAsLatLon(Head(locations))
          THEN << <<"getWeather",
                    << <<"lat", Num(ParsedLat(Head(locations)))>>,
                       <<"lon", Num(ParsedLon(Head(locations)))>> >> >>,
                  <<"searchEvents",
                    << <<"lat", Num(ParsedLat(Head(locations)))>>,
                       <<"lon", Num(ParsedLon(Head(locations)))>>,
                       <<"radius", Num(1000)>> >> >> >>
          ELSE <<>>)
         \o PreWarmTasks(Tail(locations))

\* preWarmCache(entities): the tasks are started one after the other; their
\* promises are not awaited and their rejections are swallowed.
RECURSIVE PreWarmCache(_, _)
PreWarmCache(st, tasks) ==
    IF tasks = <<>> THEN st
    ELSE PreWarmCache(PreWarmCall(st, Head(tasks)[1], Head(tasks)[2]), Tail(tasks))

\* history: how many of the lookups preWarmCache makes on the proxy state
\* `st` are served from the cache
RECURSIVE PreWarmHits(_, _)
PreWarmHits(st, tasks) ==
    IF tasks = <<>> THEN 0
    ELSE LET after == PreWarmCall(st, Head(tasks)[1], Head(tasks)[2])
         IN (IF after.lookup.outcome = "hit" THEN 1 ELSE 0)
            + PreWarmHits(after, Tail(tasks))

\* optimizeExecution(analysis, preferences), as its effect on the proxy
OptimizeExecution(a, cacheStrategy, st) ==
    LET st1 == IF cacheStrategy = "aggressive"
               THEN PreWarmCache(st, PreWarmTasks(a.extractedEntities.locations)) ELSE st
    IN IF cacheStrategy = "minimal"
       THEN [st1 EXCEPT !.cache = CleanExpiredEntries(st1.cache, now).cache]
       ELSE st1

\* `${x}` of a possibly missing first element
FirstOrUndefined(s) == IF s = <<>> THEN "undefined" ELSE Head(s)

\* generateRecommendations(request, analysis, result)
GenerateRecommendations(a, result) ==
    LET relatedQueries ==
            << [template |-> "popular events in", arg |-> FirstOrUndefined(a.extractedEntities.locations)],
               [template |-> "restaurants near, on a map", arg |-> FirstOrUndefined(a.extractedEntities.locations)],
               [template |-> "with good foot traffic", arg |-> FirstOrUndefined(a.extractedEntities.categories)],
               [template |-> "compare ratings", arg |-> FirstOrUndefined(a.extractedEntities.categories)] >>
        out == result.finalOutput
        mapAction ==
            IF result.success /\ out.kind # "null"
               /\ a.requiresMapping /\ "mapData" \notin DOMAIN out
            THEN <<"Generate map visualization of these results">> ELSE <<>>
        summaryAction ==
            IF result.success /\ out.kind # "null"
               /\ ~a.requiresSummary /\ "rawData" \in DOMAIN out
            THEN <<"Get a summary of these findings">> ELSE <<>>
    IN [ relatedQueries |-> SubSeq(relatedQueries, 1, 3),
         suggestedActions |-> SubSeq(mapAction \o summaryAction, 1,
                                     Min(2, Len(mapAction \o summaryAction))) ]

\* getParallelExecutionCount
ParallelExecutionCount(result) ==
    Cardinality(DOMAIN result.phaseResults \cap {"map_generation", "summarization"})

\* processIntelligentQuery after executeCoordinatedQuery settled with
\* `completion`; `c` is the proxy cache at that moment.
FinishRequest(a, completion, c) ==
    IF completion.kind = "throw" THEN Throw(completion.error)
    ELSE Return([ analysis |-> a,
                  executionResult |-> completion.value,
                  optimizations |-> [ cacheHits |-> CacheSize(c),
                                      parallelExecutions |->
                                          ParallelExecutionCount(completion.value),
                                      agentsUsed |-> a.suggestedAgents ],
                  recommendations |-> GenerateRecommendations(a, completion.value) ])

--------------------------------------------------------------------------
(* One request through processIntelligentQuery (Spec)                      *)

\* query texts of at most two words, and a query that is not a string
QueryTexts ==
    {<<>>} \cup {<<w>> : w \in Vocabulary} \cup {<<v, w>> : v, w \in Vocabulary}

Queries == {[kind |-> "undefined"]} \cup {[kind |-> "string", words |-> t] : t \in QueryTexts}

Contexts ==
    {[kind |-> "undefined"]} \cup
    { [kind |-> "context", userLocation |-> u, domainFocus |-> f] :
        u \in {[kind |-> "undefined"], [kind |-> "point", lat |-> 40, lon |-> -74]},
        f \in {"none", "places", "analytics"} }

\* preferences.cacheStrategy; "none" stands for no preferences object
CacheStrategies == {"none", "aggressive", "normal", "minimal"}

\* what the history keeps of the query: not a string, "" or a text
QueryKind(query) ==
    IF query.kind # "string" THEN "undefined"
    ELSE IF query.words = <<>> THEN "empty" ELSE "text"

NoResponse == [kind |-> "none"]
NoBudget == [kind |-> "none"]

RequestInit ==
    /\ pc = "idle"
    /\ request = [kind |-> "none"]
    /\ analysis = [kind |-> "none"]
    /\ plan = [kind |-> "none"]
    /\ phaseResults = EmptyResults
    /\ inFlight = {}
    /\ started = {}
    /\ failure = NoFailure
    /\ peakInFlight = 0
    /\ stages = <<>>
    /\ budget = NoBudget
    /\ response = NoResponse

InFlightNames == {c.name : c \in inFlight}

\* history: the proxy lookups served from the cache while the request is
\* handled; preWarmCache is the only caller of the proxy in a request
RequestLookupHits(query, context, cacheStrategy) ==
    IF query.kind = "string" /\ cacheStrategy = "aggressive"
    THEN PreWarmHits(ProxyState(cache, calls, nCalls, lastLookup, lastResult),
                     PreWarmTasks(ApplyUserContext(AnalyzeQuery(query.words), context)
                                      .extractedEntities.locations))
    ELSE 0

Max(a, b) == IF a < b THEN b ELSE a

\* The stages of processIntelligentQuery before executeCoordinatedQuery
\* enters its phase loop: analyzeQuery, applyUserContext when a context is
\* given, preWarmCache when the strategy is 'aggressive', and
\* createExecutionPlan at the head of executeCoordinatedQuery.
StagesBeforeExecution(context, cacheStrategy) ==
    <<"received", "analyzed">>
    \o (IF context.kind # "undefined" THEN <<"enriched">> ELSE <<>>)
    \o (IF cacheStrategy = "aggressive" THEN <<"prewarmed">> ELSE <<>>)
    \o <<"planned">>

\* the stages after a turn `st` of the coordinator loop: the first
\* executePhase call opens the execution stage; the loop ends in combineResults
\* and the return, or in the catch block and the return
StagesAfter(base, st) ==
    LET exec == IF st.started # {} /\ "executing" \notin Range(base)
                THEN Append(base, "executing") ELSE base
    IN IF st.status = "running" THEN exec
       ELSE IF st.failure = NoFailure THEN exec \o <<"synthesized", "done">>
       ELSE Append(exec, "done")

\* the request variables after a turn `st` of the coordinator loop
AfterStep(a, st, c, base) ==
    /\ inFlight' = st.inFlight
    /\ stages' = StagesAfter(base, st)
    /\ started' = st.started
    /\ peakInFlight' = Max(peakInFlight, Cardinality(st.inFlight))
    /\ IF st.status = "running"
       THEN /\ pc' = "executing"
            /\ response' = response
            /\ failure' = failure
       ELSE /\ pc' = "done"
            /\ response' = FinishRequest(a, st.completion, c)
            /\ failure' = st.failure

\* processIntelligentQuery(request) up to the first await of an agent call:
\* analyzeQuery, applyUserContext, optimizeExecution, createExecutionPlan and
\* the first turn of the phase loop.
ProcessIntelligentQuery(query, context, cacheStrategy) ==
    /\ pc = "idle"
    /\ request' = [query |-> QueryKind(query), cacheStrategy |-> cacheStrategy,
                   lookupHits |-> RequestLookupHits(query, context, cacheStrategy)]
    /\ IF query.kind # "string"
       THEN \* query.toLowerCase() throws; the catch block rethrows
            /\ pc' = "done"
            /\ response' = Throw("TypeError")
            /\ failure' = [kind |-> "analysis"]
            /\ stages' = <<"received", "failed">>
            /\ UNCHANGED <<analysis, plan, phaseResults, inFlight, started, peakInFlight>>
            /\ UNCHANGED cacheVars
       ELSE \E a \in {ApplyUserContext(AnalyzeQuery(query.words), context)} :
            \E opt \in {OptimizeExecution(a, cacheStrategy,
                            ProxyState(cache, calls, nCalls, lastLookup, lastResult))} :
            \E pl \in {CreateExecutionPlan(a)} :
            \E st \in {CoordinatorStep(a, pl.phases, EmptyResults, {}, {})} :
               /\ analysis' = a
               /\ plan' = pl
               /\ phaseResults' = EmptyResults
               /\ cache' = opt.cache
               /\ calls' = opt.calls
               /\ nCalls' = opt.nCalls
               /\ lastLookup' = opt.lookup
               /\ lastResult' = opt.result
               /\ UNCHANGED <<now, lastCleaned, registered, prevLookup, planRun>>
               /\ AfterStep(a, st, opt.cache, StagesBeforeExecution(context, cacheStrategy))

\* agent.generate of phase `name` resolves with `output`: the result is
\* stored and the loop goes on
PhaseResolve(name, output) ==
    /\ pc = "executing"
    /\ name \in InFlightNames
    /\ LET results == [n \in DOMAIN phaseResults \cup {name} |->
                          IF n = name THEN output ELSE phaseResults[n]]
           pending == {c \in inFlight : c.name # name}
           st == CoordinatorStep(analysis, plan.phases, results, started, pending)
       IN /\ phaseResults' = results
          /\ AfterStep(analysis, st, cache, stages)
    /\ UNCHANGED <<request, analysis, plan, budget>>
    /\ UNCHANGED cacheVars

\* agent.generate of phase `name` rejects: the catch block of
\* executeCoordinatedQuery ends the loop
PhaseReject(name) ==
    /\ pc = "executing"
    /\ name \in InFlightNames
    /\ pc' = "done"
    /\ inFlight' = {}
    /\ failure' = [kind |-> "phase", phase |-> name, how |-> "generate threw"]
    /\ response' = FinishRequest(analysis, CoordinationCatch("generate failed"), cache)
    /\ stages' = Append(stages, "done")
    /\ UNCHANGED <<request, analysis, plan, phaseResults, started, peakInFlight, budget>>
    /\ UNCHANGED cacheVars

Init == CacheInit /\ RequestInit /\ registered \in AgentRegistries

Next ==
    \/ \E q \in Queries, x \in Contexts, s \in CacheStrategies :
           ProcessIntelligentQuery(q, x, s) /\ UNCHANGED budget
    \/ \E name \in InFlightNames : \E output \in PhaseOutputs(name) :
           PhaseResolve(name, output)
    \/ \E name \in InFlightNames : PhaseReject(name)
    \/ \E call \in calls, text \in AgentTexts :
           ToolCallResolve(call, text) /\ UNCHANGED reqVars
    \/ \E call \in calls : ToolCallReject(call) /\ UNCHANGED reqVars

Spec == Init /\ [][Next]_vars

CacheNext ==
    \/ \E i \in CallerInvocations : ToolCall(i[1], i[2], i[3]) /\ UNCHANGED reqVars
    \/ \E call \in calls, text \in AgentTexts :
           ToolCallResolve(call, text) /\ UNCHANGED reqVars
    \/ \E call \in calls : ToolCallReject(call) /\ UNCHANGED reqVars
    \/ CleanExpired /\ UNCHANGED reqVars
    \/ ClearCache /\ UNCHANGED reqVars
    \/ Tick /\ UNCHANGED reqVars

CacheSpecInit ==
    CacheInit /\ RequestInit /\ registered = {"orchestratorAgent", "mapDataAgent"}

CacheSpec == CacheSpecInit /\ [][CacheNext]_vars

\* Callers that ask for the weather of one place, naming the coordinates in
\* either order (ReadSpec).
ReadInvocations ==
    { <<"getWeather", ParamLatLon, "default">>,
      <<"getWeather", ParamLonLat, "default">> }

ReadCall(method, params, useCacheArg) ==
    /\ nCalls < MaxReads
    /\ ProxyCall(method, params, useCacheArg)
    /\ prevLookup' = lastLookup

ReadNext ==
    \/ \E i \in ReadInvocations : ReadCall(i[1], i[2], i[3]) /\ UNCHANGED reqVars
    \/ \E call \in calls, text \in AgentTexts :
           ToolCallResolve(call, text) /\ UNCHANGED reqVars
    \/ \E call \in calls : ToolCallReject(call) /\ UNCHANGED reqVars
    \/ CleanExpired /\ UNCHANGED reqVars
    \/ ClearCache /\ UNCHANGED reqVars
    \/ Tick /\ UNCHANGED reqVars

ReadSpec == CacheSpecInit /\ [][ReadNext]_vars

QueryTypes == {"search_only", "map_data_only", "comprehensive", "analytics", "location_based"}

\* analyses of every type, with either flag and with or without locations
QueryAnalyses ==
    { [ type |-> t, confidence |-> BaseConfidence,
        suggestedAgents |-> DetermineAgents(t, m),
        extractedEntities |-> [locations |-> l, categories |-> c,
                               metrics |-> <<>>, timeframes |-> <<>>],
        requiresMapping |-> m, requiresSummary |-> s ] :
        t \in QueryTypes, m \in BOOLEAN, s \in BOOLEAN, l \in {<<>>, <<"Austin">>},
        c \in {<<>>, <<"cafe">>} }

\* executeCoordinatedQuery(query, analysis) up to the first await of an agent
\* call, for an analysis of any QueryType: the part of processIntelligentQuery
\* that follows its analysis steps (CoordinationSpec).
ExecuteCoordinatedQuery(a) ==
    /\ pc = "idle"
    /\ request' = [query |-> "text", cacheStrategy |-> "none"]
    /\ \E pl \in {CreateExecutionPlan(a)} :
       \E st \in {CoordinatorStep(a, pl.phases, EmptyResults, {}, {})} :
          /\ analysis' = a
          /\ plan' = pl
          /\ phaseResults' = EmptyResults
          /\ AfterStep(a, st, cache, <<"received", "analyzed", "planned">>)
    /\ UNCHANGED budget
    /\ UNCHANGED cacheVars

CoordinationNext ==
    \/ \E a \in QueryAnalyses : ExecuteCoordinatedQuery(a)
    \/ \E name \in InFlightNames : \E output \in PhaseOutputs(name) :
           PhaseResolve(name, output)
    \/ \E name \in InFlightNames : PhaseReject(name)

CoordinationSpec == Init /\ [][CoordinationNext]_vars

\* analyzeQuery alone, on query texts of at most three words (RouterSpec).
RouterVocabulary ==
    Vocabulary \cup {"events", "how", "many", "look", "for", "in", "Paris", "austin", "AUSTIN"}

RouterTexts ==
    {<<>>} \cup {<<w>> : w \in RouterVocabulary}
    \cup {<<v, w>> : v, w \in RouterVocabulary}
    \cup {<<u, v, w>> : u, v, w \in RouterVocabulary}

\* one call of analyzeQuery per behaviour
AnalyzeQueryCall(q) ==
    /\ "words" \notin DOMAIN request
    /\ request' = [query |-> "text", cacheStrategy |-> "none", words |-> q]
    /\ analysis' = AnalyzeQuery(q)
    /\ UNCHANGED <<pc, plan, phaseResults, inFlight, started, failure, peakInFlight,
                   stages, budget, response>>
    /\ UNCHANGED cacheVars

RouterNext == \E q \in RouterTexts : AnalyzeQueryCall(q)

RouterSpec == Init /\ [][RouterNext]_vars

\* analyzeQuery followed by applyUserContext, the first two steps of
\* processIntelligentQuery (ContextSpec).
ApplyUserContextCall(context) ==
    /\ "words" \in DOMAIN request
    /\ "context" \notin DOMAIN request
    /\ request' = [query |-> "text", cacheStrategy |-> "none",
                   words |-> request.words, context |-> context]
    /\ analysis' = ApplyUserContext(analysis, context)
    /\ UNCHANGED <<pc, plan, phaseResults, inFlight, started, failure, peakInFlight,
                   stages, budget, response>>
    /\ UNCHANGED cacheVars

ContextNext ==
    \/ \E q \in QueryTexts : AnalyzeQueryCall(q)
    \/ \E context \in Contexts : ApplyUserContextCall(context)

ContextSpec == Init /\ [][ContextNext]_vars

\* executePlanTool.execute, in its two versions: "getTool" resolves the tools
\* through mastra.getTool, "import" through the switch over the tool ids
\* (PlanSpec).
PlanVersions == {"getTool", "import"}

\* tool ids of plan steps: two executable tools, one of them also with the
\* "functions." prefix, the plan tool itself and an id that names no tool
PlanToolIds ==
    {"getWeatherTool", "searchEventsTool", "functions.getWeatherTool", "execute-plan",
     "unknownTool"}

ExecutableTools == {"getWeatherTool", "searchEventsTool"}

PlanArgs == {"city: Austin", "city: Dallas"}

\* plans of at most two tool calls
Plans ==
    LET steps == [tool : PlanToolIds, args : PlanArgs]
    IN {<<>>} \cup {<<a>> : a \in steps} \cup {<<a, b>> : a, b \in steps}

\* toolId.substring('functions.'.length) when the id starts with "functions."
StripFunctionsPrefix(toolId) ==
    IF toolId = "functions.getWeatherTool" THEN "getWeatherTool" ELSE toolId

\* the key under which a step's outcome is stored
ResultKey(version, toolCall) ==
    IF version = "import" THEN StripFunctionsPrefix(toolCall.tool) ELSE toolCall.tool

ErrorRecord(message) == [error |-> message]

\* What one iteration of the loop stores for toolCall; `throws` tells whether
\* the tool's execute rejects.
StepOutcome(version, toolCall, throws) ==
    LET toolId == ResultKey(version, toolCall)
        executed == IF throws THEN ErrorRecord("tool failed")
                    ELSE [tool |-> toolId, context |-> toolCall.args]
    IN IF version = "import"
       THEN IF toolId \in {"execute-plan", "executePlanTool"}
            THEN ErrorRecord("Recursive call prevented")
            ELSE IF toolId \in ExecutableTools THEN executed
            ELSE [empty |-> TRUE]
       ELSE IF toolId \in ExecutableTools THEN executed
            \* the plan tool called without a mastra instance throws
            ELSE IF toolId = "execute-plan"
            THEN ErrorRecord("Mastra instance is not properly available")
            ELSE ErrorRecord("not found or not executable")

\* execute({context: plan}) up to the first iteration of the loop
ExecutePlanStart(version, toolCalls) ==
    /\ planRun.kind = "idle"
    /\ planRun' = [kind |-> IF toolCalls = <<>> THEN "done" ELSE "running",
                   version |-> version, plan |-> toolCalls, next |-> 1,
                   results |-> [k \in {} |-> Undefined], outcomes |-> <<>>]
    /\ UNCHANGED <<cache, now, calls, nCalls, lastLookup, lastResult, lastCleaned,
                   registered, prevLookup>>
    /\ UNCHANGED reqVars

\* one iteration of `for (const toolCall of plan)`, and the return after the
\* last one; outcomes is the history of what each step produced
ExecutePlanStep(throws) ==
    /\ planRun.kind = "running"
    /\ LET toolCall == planRun.plan[planRun.next]
           key == ResultKey(planRun.version, toolCall)
           outcome == StepOutcome(planRun.version, toolCall, throws)
       IN /\ throws => key \in ExecutableTools
          /\ planRun' = [planRun EXCEPT
                 !.results = (key :> outcome) @@ planRun.results,
                 !.outcomes = Append(planRun.outcomes, outcome),
                 !.next = planRun.next + 1,
                 !.kind = IF planRun.next = Len(planRun.plan)
                          THEN "done" ELSE "running"]
    /\ UNCHANGED <<cache, now, calls, nCalls, lastLookup, lastResult, lastCleaned,
                   registered, prevLookup>>
    /\ UNCHANGED reqVars

PlanNext ==
    \/ \E version \in PlanVersions, p \in Plans : ExecutePlanStart(version, p)
    \/ \E throws \in BOOLEAN : ExecutePlanStep(throws)

PlanSpec == CacheSpecInit /\ [][PlanNext]_vars

\* Requests that carry preferences.maxExecutionTime, with time passing while
\* their phases run (BudgetSpec).
BudgetQueries ==
    { [kind |-> "string", words |-> <<"near">>],
      [kind |-> "string", words |-> <<"find">>],
      [kind |-> "string", words |-> <<"count", "near">>],
      [kind |-> "undefined"] }

\* preferences.maxExecutionTime, in ms
ExecutionBudgets == {TickMs}

BudgetNext ==
    \/ \E q \in BudgetQueries, m \in ExecutionBudgets :
           /\ ProcessIntelligentQuery(q, [kind |-> "undefined"], "normal")
           /\ budget' = [kind |-> "budget", startTime |-> now, maxExecutionTime |-> m]
    \/ \E name \in InFlightNames : \E output \in PhaseOutputs(name) :
           PhaseResolve(name, output)
    \/ \E name \in InFlightNames : PhaseReject(name)
    \/ Tick /\ UNCHANGED reqVars

BudgetSpec == Init /\ [][BudgetNext]_vars

--------------------------------------------------------------------------
(* Properties of one request (Spec)                                        *)

RequestDone == pc = "done"
PhaseFailed == failure.kind = "phase"
HasPlan == "phases" \in DOMAIN plan

PhaseNamed(phases, name) == phases[CHOOSE i \in DOMAIN phases : phases[i].name = name]

\* the failed phase and every phase that depends on it, directly or not
DependentsOf(phases, failed) ==
    LET RECURSIVE Close(_, _)
        Close(S, k) ==
            IF k = 0 THEN S
            ELSE Close(S \cup {phases[i].name : i \in
                                 {j \in DOMAIN phases :
                                    Range(phases[j].dependencies) \cap S # {}}},
                       k - 1)
    IN Close({failed}, Len(phases))

\* C1: when the executor call of one phase fails, every phase of the plan
\* that does not depend on the failed phase is still executed.
C1_IndependentPhasesStillRun ==
    (RequestDone /\ PhaseFailed) =>
        PhaseNames(plan.phases) \ DependentsOf(plan.phases, failure.phase) \subseteq started

\* C2: when one phase fails and the phases before it succeeded, the result
\* has success = true and its phaseResults holds every stored phase output.
C2_PartialResultKept ==
    (RequestDone /\ PhaseFailed /\ DOMAIN phaseResults # {}) =>
        /\ response.kind = "return"
        /\ response.value.executionResult.success
        /\ response.value.executionResult.phaseResults = phaseResults

\* C3: a phase whose executor call is in flight, flagged parallel or not, was
\* started with the stored result of every phase it depends on.
C3_DependenciesCompleteBeforeStart ==
    \A c \in inFlight :
        LET deps == Range(PhaseNamed(plan.phases, c.name).dependencies)
        IN /\ deps \subseteq DOMAIN phaseResults
           /\ DOMAIN c.context = deps
           /\ \A d \in deps : c.context[d] = phaseResults[d]

C3_Witness ==
    \E c \in inFlight :
        /\ PhaseNamed(plan.phases, c.name).parallel
        /\ PhaseNamed(plan.phases, c.name).dependencies # <<>>
        /\ DOMAIN c.context # {}

DependenciesPrecede(phases) ==
    \A i \in DOMAIN phases :
        Range(phases[i].dependencies) \subseteq {phases[j].name : j \in 1..(i - 1)}

\* C4: every phase of a plan built by createExecutionPlan depends only on
\* phases that appear strictly earlier in the plan.
C4_DependenciesPrecede ==
    /\ \A a \in QueryAnalyses : DependenciesPrecede(CreateExecutionPlan(a).phases)
    /\ HasPlan => DependenciesPrecede(plan.phases)

C4_Witness ==
    /\ HasPlan
    /\ analysis.type = "analytics"
    /\ "map_generation" \in PhaseNames(plan.phases)
    /\ PhaseNamed(plan.phases, "map_generation").dependencies # <<>>

\* C5: a failed phase never makes the request throw: the result returned
\* reports the failure in errors; the request throws only when the analysis
\* of the query throws.
C5_PhaseFailureIsReturned ==
    /\ PhaseFailed =>
          /\ response.kind = "return"
          /\ ~response.value.executionResult.success
          /\ response.value.executionResult.errors # <<>>
    /\ response.kind = "throw" => failure.kind = "analysis"

C5_Witness ==
    /\ RequestDone
    /\ PhaseFailed
    /\ failure.how = "generate threw"
    /\ response.kind = "return"
    /\ Len(response.value.executionResult.errors) = 1

\* C6: a request that ends as a failure still returns a synthesized response
\* object, with success = false; the output is never null and never a thrown
\* exception.
C6_FailureIsSynthesizedResponse ==
    (RequestDone /\ failure.kind # "none") =>
        /\ response.kind = "return"
        /\ response.value.executionResult.finalOutput.kind = "object"
        /\ ~response.value.executionResult.finalOutput.success

\* C7: in a plan that holds both map_generation and summarization, the two
\* executor calls are in flight at the same time at some point of the run.
C7_IndependentPhasesOverlap ==
    (RequestDone /\ {"map_generation", "summarization"} \subseteq started) =>
        peakInFlight >= 2

--------------------------------------------------------------------------
(* Properties of the tool cache (CacheSpec)                                *)

\* the settled result `res` is the answer to call `id` and says cached: true
ReportsCached(res, id) == res.kind = "resolved" /\ res.id = id /\ res.value.cached

\* the step is an executeWithCache invocation with useCache = true
CachedLookupStep == lastLookup' # lastLookup /\ lastLookup'.useCache

\* the same properties in every other order
Reorderings(params) ==
    {[i \in DOMAIN params |-> params[f[i]]] : f \in Permutations(DOMAIN params)}

ProxyMethods == {"searchPoi", "getWeather", "searchEvents", "getAggregatedMetric"}

\* the ttl a completed call of the tool stores its result with
StoreTTL(toolName) ==
    EffectiveTTL(ProxyMethod(CHOOSE m \in ProxyMethods :
                                ProxyMethod(m).toolName = toolName).customTTL)

\* the entry is one value a completed external call stored under the key,
\* with the timestamp and the ttl of that store
WholeEntry(k, entry) ==
    /\ GenerateCacheKey(entry.result.toolName, entry.result.params) = k
    /\ entry.timestamp = entry.result.resolvedAt
    /\ entry.ttl = StoreTTL(entry.result.toolName)

\* C8: a cached call answers cached = true only from an entry with
\* now - timestamp < ttl; an entry found with now - timestamp >= ttl is a
\* miss: it is removed and the external operation is invoked.
C8_LazyExpiry ==
    [][ CachedLookupStep =>
          LET l == lastLookup'
              k == l.key
              has == k \in DOMAIN cache
          IN /\ ReportsCached(lastResult', l.id) =>
                   has /\ now - cache[k].timestamp < cache[k].ttl
             /\ (has /\ now - cache[k].timestamp >= cache[k].ttl) =>
                   /\ ~ReportsCached(lastResult', l.id)
                   /\ k \notin DOMAIN cache'
                   /\ \E call \in calls' \ calls : call.id = l.id /\ call.key = k
      ]_vars

C8_Witness ==
    /\ lastLookup.kind = "lookup"
    /\ lastLookup.useCache
    /\ lastLookup.found.kind = "entry"
    /\ lastLookup.time - lastLookup.found.entry.timestamp >= lastLookup.found.entry.ttl
    /\ lastLookup.outcome = "pending"
    /\ lastLookup.key \notin DOMAIN cache
    /\ \E call \in calls : call.id = lastLookup.id

\* C9: parameter objects of one tool with the same properties in a different
\* order have the same key, and a cached call is served from the unexpired
\* entry a call with such parameters stored.
C9_KeyIgnoresOrder ==
    [][ /\ \A i \in CallerInvocations : \A q \in Reorderings(i[2]) :
              GenerateCacheKey(ProxyMethod(i[1]).toolName, q)
                  = GenerateCacheKey(ProxyMethod(i[1]).toolName, i[2])
        /\ CachedLookupStep =>
              \A k \in DOMAIN cache :
                  ( /\ cache[k].result.toolName = lastLookup'.toolName
                    /\ cache[k].result.params \in Reorderings(lastLookup'.params)
                    /\ now - cache[k].timestamp < cache[k].ttl ) =>
                  /\ ReportsCached(lastResult', lastLookup'.id)
                  /\ lastResult'.value.data.val = cache[k].result
      ]_vars

C9_Witness ==
    /\ lastLookup.kind = "lookup"
    /\ lastLookup.outcome = "hit"
    /\ lastLookup.found.entry.result.params # lastLookup.params
    /\ lastLookup.found.entry.result.params \in Reorderings(lastLookup.params)
    /\ ReportsCached(lastResult, lastLookup.id)

\* C10: whatever the interleaving of calls, sweeps and clearCache, every
\* entry of the cache is one whole stored value with its own timestamp and
\* ttl, and a call that reports cached = true returns the result of such an
\* entry found under its key.
C10_EntriesAreWhole ==
    /\ \A k \in DOMAIN cache : WholeEntry(k, cache[k])
    /\ (lastLookup.kind = "lookup" /\ ReportsCached(lastResult, lastLookup.id)) =>
          /\ lastLookup.found.kind = "entry"
          /\ WholeEntry(lastLookup.key, lastLookup.found.entry)
          /\ lastResult.value.data.val = lastLookup.found.entry.result

C10_Witness ==
    /\ lastLookup.kind = "lookup"
    /\ ReportsCached(lastResult, lastLookup.id)
    /\ lastLookup.found.entry.timestamp > 0
    /\ lastLookup.time > lastLookup.found.entry.timestamp

\* C11: cleanExpiredEntries removes every entry with now - timestamp >= ttl,
\* leaves every other entry unchanged and returns the number removed; an
\* entry is expired for the sweep exactly when the lookup would not serve it.
C11_SweepRemovesExpired ==
    [][ CleanExpired =>
          /\ DOMAIN cache' \subseteq DOMAIN cache
          /\ \A k \in DOMAIN cache :
                /\ (now - cache[k].timestamp >= cache[k].ttl) <=> k \notin DOMAIN cache'
                /\ (now - cache[k].timestamp >= cache[k].ttl) <=> ~LookupFresh(cache[k], now)
                /\ k \in DOMAIN cache' => cache'[k] = cache[k]
          /\ lastCleaned' = Cardinality(DOMAIN cache \ DOMAIN cache')
      ]_vars

C11_Witness ==
    /\ lastCleaned = 1
    /\ now = TickMs
    /\ nCalls = 2
    /\ calls = {}
    /\ \E k \in DOMAIN cache : cache[k].timestamp = 0 /\ cache[k].ttl > TickMs

--------------------------------------------------------------------------
(* Properties of repeated reads (ReadSpec)                                 *)

\* the step is a cached read of the key the previous cached read asked for
ConsecutiveReads ==
    /\ CachedLookupStep
    /\ lastLookup.kind = "lookup"
    /\ lastLookup.useCache
    /\ lastLookup'.key = lastLookup.key

\* nothing was stored under the key since the previous read: the entry it
\* served is still there as it was, or the key it missed is still absent
UntouchedSinceRead ==
    IF lastLookup.outcome = "hit"
    THEN /\ lastLookup.key \in DOMAIN cache
         /\ cache[lastLookup.key] = lastLookup.found.entry
    ELSE lastLookup.key \notin DOMAIN cache

\* the two reads both miss, or both are served the same value
SameAnswer ==
    /\ (lastLookup'.outcome = "hit") <=> (lastLookup.outcome = "hit")
    /\ lastLookup'.outcome = "hit" =>
          /\ ReportsCached(lastResult', lastLookup'.id)
          /\ lastResult'.value.data.val = lastLookup.found.entry.result

\* a read leaves the cache as it was or deletes the expired entry of its key
ReadOnlyExpires ==
    lastLookup' # lastLookup =>
        \/ cache' = cache
        \/ /\ lastLookup'.useCache
           /\ lastLookup'.key \in DOMAIN cache
           /\ now - cache[lastLookup'.key].timestamp >= cache[lastLookup'.key].ttl
           /\ DOMAIN cache' = DOMAIN cache \ {lastLookup'.key}
           /\ \A k \in DOMAIN cache' : cache'[k] = cache[k]

\* C12 as stated: two consecutive reads of a key with no write to the key in
\* between return the same value or both miss, and a read changes the cache
\* only by deleting an expired entry.
C12_ReadsAgree ==
    [][ /\ (ConsecutiveReads /\ UntouchedSinceRead) => SameAnswer
        /\ ReadOnlyExpires
      ]_vars

\* C12 amended: the same, for two reads between which the entry served by
\* the first does not reach its ttl.
C12_ReadsAgreeWithinTTL ==
    [][ /\ ( /\ ConsecutiveReads
             /\ UntouchedSinceRead
             /\ lastLookup.outcome = "hit" =>
                   now - lastLookup.found.entry.timestamp < lastLookup.found.entry.ttl )
           => SameAnswer
        /\ ReadOnlyExpires
      ]_vars

C12_Witness ==
    /\ prevLookup.kind = "lookup"
    /\ prevLookup.outcome = "hit"
    /\ lastLookup.outcome = "hit"
    /\ lastLookup.key = prevLookup.key
    /\ lastLookup.time > prevLookup.time
    /\ lastLookup.found.entry = prevLookup.found.entry
    /\ ReportsCached(lastResult, lastLookup.id)

--------------------------------------------------------------------------
(* Properties of uncached calls (CacheSpec)                                *)

\* C13: a call with useCache = false always invokes the external operation,
\* never answers cached = true and leaves the cache map as it was, when it
\* starts and when it completes, whatever entry its key has;
\* getAggregatedMetric passes useCache = false by default.
C13_UncachedCallLeavesCache ==
    [][ /\ (lastLookup' # lastLookup /\ ~lastLookup'.useCache) =>
              /\ cache' = cache
              /\ lastLookup'.outcome = "pending"
              /\ \E call \in calls' \ calls :
                    call.id = lastLookup'.id /\ call.toolName = lastLookup'.toolName
              /\ ~ReportsCached(lastResult', lastLookup'.id)
        /\ \A call \in calls \ calls' :
              ~call.useCache =>
                 /\ cache' = cache
                 /\ ~ReportsCached(lastResult', call.id)
        /\ \A i \in CallerInvocations :
              (i[1] = "getAggregatedMetric" /\ i[3] = "default"
                 /\ ToolCall(i[1], i[2], i[3])) => ~lastLookup'.useCache
      ]_vars

C13_Witness ==
    /\ lastLookup.kind = "lookup"
    /\ ~lastLookup.useCache
    /\ lastLookup.found.kind = "entry"
    /\ lastResult.kind = "resolved"
    /\ lastResult.id = lastLookup.id
    /\ ~lastResult.value.cached
    /\ lastLookup.key \in DOMAIN cache
    /\ cache[lastLookup.key] = lastLookup.found.entry

--------------------------------------------------------------------------
(* Properties of the plan templates (Spec)                                 *)

\* the query types whose template has an optional map_generation phase
MapTemplateTypes == {"comprehensive", "search_only", "analytics"}

HasLocations(a) == a.extractedEntities.locations # <<>>

HasMapPhase(phases) == "map_generation" \in PhaseNames(phases)

PlanFromTypeAndMapNeed ==
    /\ \A a, b \in QueryAnalyses :
          ( /\ a.type = b.type
            /\ (a.requiresMapping \/ HasLocations(a)) = (b.requiresMapping \/ HasLocations(b)) )
          => CreateExecutionPlan(a).phases = CreateExecutionPlan(b).phases
    /\ \A a \in QueryAnalyses :
          HasMapPhase(CreateExecutionPlan(a).phases) <=>
              (a.type \in MapTemplateTypes /\ (a.requiresMapping \/ HasLocations(a)))

\* C14 as stated: the phases of a plan are a function of the type and of
\* requiresMapping alone, and a template with a map phase has it exactly
\* when requiresMapping is true.
C14_PlanFromTypeAndMapping ==
    HasPlan =>
       /\ plan.phases = PlanPhases(analysis.type, analysis.requiresMapping)
       /\ analysis.type \in MapTemplateTypes =>
             (HasMapPhase(plan.phases) <=> analysis.requiresMapping)

\* C14 amended: the phases are a function of the type and of whether
\* requiresMapping is true or a location was extracted, and the map phase is
\* there exactly when one of the two holds.
C14_PlanFromTypeAndMapNeed ==
    /\ PlanFromTypeAndMapNeed
    /\ HasPlan =>
          /\ plan.phases = PlanPhases(analysis.type,
                                      analysis.requiresMapping \/ HasLocations(analysis))
          /\ HasMapPhase(plan.phases) <=>
                ( /\ analysis.type \in MapTemplateTypes
                  /\ (analysis.requiresMapping \/ HasLocations(analysis)) )

C14_Witness ==
    /\ HasPlan
    /\ ~analysis.requiresMapping
    /\ HasLocations(analysis)
    /\ HasMapPhase(plan.phases)

--------------------------------------------------------------------------
(* Properties of the templates of every QueryType (CoordinationSpec)       *)

\* C15: the plan of a LOCATION_BASED analysis has the phases of the plan of
\* a COMPREHENSIVE analysis with the same flags and entities.
C15_LocationBasedReusesComprehensive ==
    (HasPlan /\ analysis.type = "location_based") =>
        plan.phases = CreateExecutionPlan([analysis EXCEPT !.type = "comprehensive"]).phases

\* C16: executeCoordinatedQuery never returns success = true after executing
\* zero phases, whatever the QueryType.
C16_NoSuccessWithoutPhases ==
    (RequestDone /\ response.kind = "return"
       /\ response.value.executionResult.success) => started # {}

--------------------------------------------------------------------------
(* Properties of the handling of bad input (Spec)                          *)

\* C17: a request whose query is empty or not a string fails at once:
\* processIntelligentQuery throws without building a plan or starting a phase.
C17_BadQueryFailsFast ==
    (pc # "idle" /\ request.query \in {"empty", "undefined"}) =>
        /\ RequestDone
        /\ response.kind = "throw"
        /\ ~HasPlan
        /\ started = {}

--------------------------------------------------------------------------
(* Properties of the execution-time budget (BudgetSpec)                    *)

BudgetExceeded ==
    /\ budget.kind = "budget"
    /\ now - budget.startTime > budget.maxExecutionTime

\* C18: once preferences.maxExecutionTime has been exceeded, the coordinator
\* starts no further phase of the plan.
C18_NoPhaseStartsOverBudget ==
    [][ BudgetExceeded => started' = started ]_vars

--------------------------------------------------------------------------
(* Properties of the stages of a request (Spec)                            *)

IsPrefix(s, t) ==
    /\ Len(s) <= Len(t)
    /\ \A i \in 1..Len(s) : s[i] = t[i]

\* RECEIVED, ANALYZED, (context-enriched), PLANNED, (cache pre-warmed),
\* EXECUTING, SYNTHESIZED, DONE
StageOrders ==
    { <<"received", "analyzed">> \o e \o <<"planned">> \o w
        \o <<"executing", "synthesized", "done">> :
      e \in {<<>>, <<"enriched">>}, w \in {<<>>, <<"prewarmed">>} }

\* C19: every request passes through analysis, context enrichment, plan
\* construction, optional pre-warm, phase execution, synthesis and the
\* terminal state in this order, skipping none but the optional stages; no
\* phase executes before the plan is built and synthesis starts only after
\* the last phase finished.
C19_StagesInOrder ==
    (pc # "idle" /\ request.query # "undefined") =>
        /\ \E o \in StageOrders :
              /\ IsPrefix(stages, o)
              /\ RequestDone => stages = o
        /\ started # {} => HasPlan
        /\ "synthesized" \in Range(stages) =>
              /\ inFlight = {}
              /\ \A i \in 1..Len(plan.phases) :
                    plan.phases[i].name \in DOMAIN phaseResults

--------------------------------------------------------------------------
(* Properties of the query classification (RouterSpec)                     *)

Analyzed == "words" \in DOMAIN request

\* the text classifyQueryType is given
ClassifiedText == ToLowerCase(request.words)

HasMapKeyword == IncludesAny(ClassifiedText, MapKeywords)
HasAnalyticsKeyword == IncludesAny(ClassifiedText, AnalyticsKeywords)
HasSearchKeyword == IncludesAny(ClassifiedText, SearchKeywords)
HasWeatherOrEvents ==
    Includes(ClassifiedText, <<"weather">>) \/ Includes(ClassifiedText, <<"events">>)

\* C20: classifyQueryType gives MAP_DATA_ONLY whenever the text contains a
\* mapping keyword, whatever else it contains; otherwise ANALYTICS whenever it
\* contains an analytics keyword; otherwise SEARCH_ONLY when it contains a
\* search keyword and neither 'weather' nor 'events'; otherwise COMPREHENSIVE.
C20_ClassificationPrecedence ==
    Analyzed =>
        /\ HasMapKeyword => analysis.type = "map_data_only"
        /\ (~HasMapKeyword /\ HasAnalyticsKeyword) => analysis.type = "analytics"
        /\ (~HasMapKeyword /\ ~HasAnalyticsKeyword /\ HasSearchKeyword
              /\ ~HasWeatherOrEvents) => analysis.type = "search_only"
        /\ (~HasMapKeyword /\ ~HasAnalyticsKeyword
              /\ (~HasSearchKeyword \/ HasWeatherOrEvents)) =>
                 analysis.type = "comprehensive"

\* a text with a mapping, an analytics and a search keyword is MAP_DATA_ONLY
C20_Witness ==
    /\ Analyzed
    /\ HasMapKeyword /\ HasAnalyticsKeyword /\ HasSearchKeyword
    /\ analysis.type = "map_data_only"

--------------------------------------------------------------------------
(* Properties of the extracted entities (RouterSpec)                       *)

\* C21: in every QueryAnalysis returned by analyzeQuery, a non-empty
\* extractedEntities.locations implies requiresMapping = true.
C21_LocationsRequireMapping ==
    Analyzed =>
        (Len(analysis.extractedEntities.locations) > 0 => analysis.requiresMapping)

\* the entries of the extracted locations that are the city c, in any case
EntriesNaming(c) ==
    {i \in DOMAIN analysis.extractedEntities.locations :
        LowerWord(analysis.extractedEntities.locations[i]) = c}

\* C22: for every query text that contains a known city name, in any letter
\* case and any number of times, the locations returned by extractLocations
\* contain that city exactly once.
C22_CityExtractedOnce ==
    Analyzed =>
        \A c \in MajorCities :
            Includes(ClassifiedText, <<c>>) => Cardinality(EntriesNaming(c)) = 1

\* the city occurs after a preposition and again in another letter case
C22_Witness ==
    /\ Analyzed
    /\ \E p \in Prepositions, v \in {"austin", "AUSTIN"} :
          request.words = <<p, "Austin", v>>
    /\ analysis.extractedEntities.locations = <<"Austin">>

--------------------------------------------------------------------------
(* Properties of the synthesized output (Spec)                             *)

Synthesized ==
    /\ RequestDone
    /\ response.kind = "return"
    /\ response.value.executionResult.success

FinalOutput == response.value.executionResult.finalOutput

\* C23: in every synthesized output of combineResults, mapData.bounds and
\* mapData.center are the bounds and the mean of the Point features of
\* mapData.features, and null when there is none, also when the
\* map_generation phase itself returned the FeatureCollection.
C23_BoundsAndCenterAgree ==
    Synthesized =>
        /\ FinalOutput.data.mapData.bounds =
              CalculateBounds(FinalOutput.data.mapData.features)
        /\ FinalOutput.data.mapData.center =
              CalculateCenter(FinalOutput.data.mapData.features)

--------------------------------------------------------------------------
(* Properties of the context enrichment (ContextSpec)                      *)

Enriched == "context" \in DOMAIN request /\ request.context.kind = "context"

FocusMatchesType ==
    \/ request.context.domainFocus = "places"
          /\ analysis.type \in {"search_only", "comprehensive"}
    \/ request.context.domainFocus = "analytics" /\ analysis.type = "analytics"

\* C24: when the caller's domainFocus matches the classified type ('places'
\* with SEARCH_ONLY or COMPREHENSIVE, 'analytics' with ANALYTICS),
\* applyUserContext raises the confidence above the 0.8 baseline; in every
\* case the confidence after enrichment is at most 1.0 and not below the
\* baseline.
C24_MatchingFocusRaisesConfidence ==
    Enriched =>
        /\ FocusMatchesType => analysis.confidence > BaseConfidence
        /\ analysis.confidence <= 10
        /\ analysis.confidence >= BaseConfidence

SuggestedActions == Range(response.value.recommendations.suggestedActions)

CarriesMapData == Len(FinalOutput.data.mapData.features) > 0

\* C25: generateRecommendations suggests 'Generate map visualization of these
\* results' exactly when mapping was requested and the synthesized result
\* carries no map data, and 'Get a summary of these findings' exactly when no
\* summary was requested and the result carries raw data.
C25_ActionsMatchWhatIsMissing ==
    Synthesized =>
        /\ "Generate map visualization of these results" \in SuggestedActions
              <=> (response.value.analysis.requiresMapping /\ ~CarriesMapData)
        /\ "Get a summary of these findings" \in SuggestedActions
              <=> (~response.value.analysis.requiresSummary
                     /\ "rawData" \in DOMAIN FinalOutput)

--------------------------------------------------------------------------
(* Properties of the phase context (Spec)                                  *)

\* C26: the input context that executePhase gives to a phase's executor
\* holds exactly one entry per dependency of the phase, keyed by the
\* dependency's name and equal to the result stored for it in phaseResults,
\* and no entry for a phase that is not a dependency.
C26_ContextIsTheDependencies ==
    \A c \in inFlight :
        /\ DOMAIN c.context = Range(PhaseNamed(plan.phases, c.name).dependencies)
        /\ \A d \in DOMAIN c.context :
              d \in DOMAIN phaseResults /\ c.context[d] = phaseResults[d]

\* a phase runs with a dependency while another phase's result is stored too
C26_Witness ==
    \E c \in inFlight :
        /\ DOMAIN c.context # {}
        /\ DOMAIN phaseResults \ DOMAIN c.context # {}
        /\ \E d \in DOMAIN c.context : c.context[d].shape = "featureCollection"

--------------------------------------------------------------------------
(* Properties of executePlanTool (PlanSpec)                                *)

PlanDone == planRun.kind = "done"

ReturnedResults == {planRun.results[k] : k \in DOMAIN planRun.results}

\* C27: for every plan passed to executePlanTool, the returned object contains
\* the result (or an error record) of every tool call of the plan, also when
\* two steps call the same tool; a step whose tool throws does not stop the
\* later steps.
C27_EveryStepIsReturned ==
    PlanDone =>
        /\ Len(planRun.outcomes) = Len(planRun.plan)
        /\ \A i \in DOMAIN planRun.plan : planRun.outcomes[i] \in ReturnedResults

--------------------------------------------------------------------------
(* Properties of what the cache serves (CacheSpec)                         *)

ServedFromCache ==
    /\ lastResult.kind = "resolved"
    /\ lastResult.value.cached
    /\ lastLookup.kind = "lookup"
    /\ lastLookup.id = lastResult.id

\* C28: a cache hit returns the same data value that the miss which populated
\* the entry returned to its caller.
C28_HitReturnsWhatTheMissReturned ==
    ServedFromCache =>
        lastResult.value.data = ResultData(lastLookup.found.entry.result)

\* a parameter object as the set of its properties, nested objects included,
\* whatever the insertion order
PropertySet(props) ==
    { <<props[i][1], props[i][2].kind,
        IF props[i][2].kind = "obj"
        THEN {<<"nested", p[1], p[2].val>> : p \in Range(props[i][2].val)}
        ELSE {<<"value", "", props[i][2].val>>}>> : i \in DOMAIN props }

EqualParams(p, q) == PropertySet(p) = PropertySet(q)

\* C29: the cache never serves a result computed for different parameters:
\* a hit returns a result of a call of the same tool with equal parameters,
\* values nested inside an object-valued parameter included.
C29_HitHasEqualParameters ==
    ServedFromCache =>
        /\ lastLookup.found.entry.result.toolName = lastLookup.toolName
        /\ EqualParams(lastLookup.found.entry.result.params, lastLookup.params)

--------------------------------------------------------------------------
(* Properties of the reported metrics (Spec)                               *)

\* C30: the cacheHits metric of the response equals the number of tool
\* lookups served from the cache while handling the request; it is 0 for a
\* request during which no lookup hit the cache.
C30_CacheHitsCountsHits ==
    (RequestDone /\ response.kind = "return") =>
        response.value.optimizations.cacheHits = request.lookupHits

==========================================================================
